---- MODULE Spec2Model ----
(***************************************************************************)
(* The conversation turn pipeline of the Hebrew AI agents platform:        *)
(* the send-message route, the message-processing worker, the agent        *)
(* engine's processMessage / saveMessages, and the End and Transfer        *)
(* routes, all acting on one stored conversation.                          *)
(*                                                                         *)
(* Every handler is asynchronous.  A handler is cut into one action per    *)
(* stretch of code between two awaits on the store or the model provider,  *)
(* so that the handlers of concurrent requests interleave exactly where    *)
(* the event loop lets them.                                               *)
(***************************************************************************)
EXTENDS Integers, Sequences, FiniteSets, TLC

\* Number of requests submitted to the conversation: turns (send-message
\* requests and worker jobs) and End / Transfer operations together.
MaxRequests == 3

\* conversations.ts:299  take: 20 in the send-message route
RouteHistoryTake == 20
\* part_005:312  take: 10 in the message-processing worker
WorkerHistoryTake == 10

\* Longest text handed to the Hebrew text functions, in characters.
MaxLen == 4

\* Longest history handed to processMessage, in messages.
MaxHistory == 12

\* Most points the vector collection holds.
MaxPoints == 6

\* Number of requests sent to the agent routes.
MaxCalls == 3
MaxReview == 3
MaxWriters == 3

\* part_007:139  context.history.slice(-10)
HistoryWindow == 10
\* part_007:97  limit: number = 5
SearchLimit == 5

Turns == 1..MaxRequests
Ops == 1..MaxRequests

\* Request bodies of the send-message route: body('content').notEmpty()
Contents == {"empty", "text"}

VARIABLES
    status,      \* conversations.status of the stored conversation
    messages,    \* the messages of the conversation in creation order
    turn,        \* per turn: the request or job running processMessage
    op,          \* per operation: an End or a Transfer request
    events,      \* socket events emitted so far (each request emits an
                 \* event of one type at most once)
    modelCalls,  \* the turns for which model.invoke was called
    endedAt,     \* conversations.ended_at: 0 is null, o the time of End o
    run,         \* one call of processMessage, stage by stage
    index,       \* the points of the vector collection
    nlp,         \* one text on its way through the Hebrew text functions
    sockets,     \* per socket: the rooms it is in
    route,       \* one send-message request as the HTTP client and the
                 \* sockets see it
    review,      \* one call of analyzeConversationSentiment
    agent,       \* the agents row of one agent and its cache entry
    call,        \* per call: a request to one of the agent routes
    listing,     \* one GET /api/conversations request
    meta         \* the metadata column of one conversation and its writers

\* The sockets, the agent routes, the listing and the metadata writers.
rest == <<sockets, route, review, agent, call, listing, meta>>

\* The parts of the platform a conversation request does not touch.
aux == <<run, index, nlp, rest>>

\* The stored conversation and the requests on it.
conv == <<status, messages, turn, op, events, modelCalls, endedAt>>

vars == <<status, messages, turn, op, events, modelCalls, endedAt, run, index,
          nlp, sockets, route, review, agent, call, listing, meta>>

(***************************************************************************)
(* Hebrew text functions (HebrewNLPService)                                *)
(*                                                                         *)
(* A text is a sequence of characters; a character is written by its name: *)
(*   SP  U+0020,  TAB  U+0009,  a  a Latin letter,                         *)
(*   kaf mem nun pe tsadi  the five letters that have a final form,        *)
(*   kafF memF nunF peF tsadiF  their final forms,  yod  a letter that has *)
(*   none,  maqaf U+05BE,  geresh U+05F3,  gershayim U+05F4,               *)
(*   hyphen -,  apostrophe ',  quote ".                                    *)
(***************************************************************************)

\* The characters the texts fed to the functions are made of.
Chars == {"SP", "TAB", "a", "mem", "memF", "yod", "maqaf", "geresh"}

RECURSIVE TextsOfLen(_)
TextsOfLen(n) ==
    IF n = 0 THEN {<<>>}
    ELSE {Append(w, c) : w \in TextsOfLen(n - 1), c \in Chars}

\* body('content').notEmpty() lets any text of one character or more through.
Texts == UNION {TextsOfLen(n) : n \in 1..MaxLen}

\* The class \s of the regular expressions
Whitespace == {"SP", "TAB"}
IsSpace(c) == c \in Whitespace

\* The class [U+0590-U+05FF] of isHebrewText and fixFinalLetters
IsHebrewChar(c) ==
    c \in {"kaf", "mem", "nun", "pe", "tsadi",
           "kafF", "memF", "nunF", "peF", "tsadiF",
           "yod", "maqaf", "geresh", "gershayim"}

\* isHebrewText: hebrewRegex.test(text)
isHebrewText(text) == \E i \in DOMAIN text : IsHebrewChar(text[i])

\* String.prototype.split(sep) for a one-character separator: the pieces
\* between the separators, empty pieces included.
RECURSIVE SplitFrom(_, _, _, _)
SplitFrom(text, i, piece, seps) ==
    IF i > Len(text) THEN <<piece>>
    ELSE IF text[i] \in seps
         THEN <<piece>> \o SplitFrom(text, i + 1, <<>>, seps)
         ELSE SplitFrom(text, i + 1, Append(piece, text[i]), seps)

\* text.split(' ')
SplitSpace(text) == SplitFrom(text, 1, <<>>, {"SP"})

\* text.split(/\s+/): a run of whitespace is one separator, so the only
\* empty pieces are a first and a last one.
SplitWhitespace(text) ==
    LET pieces == SplitFrom(text, 1, <<>>, Whitespace)
        Keep(i) == pieces[i] # <<>> \/ i = 1 \/ i = Len(pieces)
        RECURSIVE Kept(_)
        Kept(i) == IF i > Len(pieces) THEN <<>>
                   ELSE (IF Keep(i) THEN <<pieces[i]>> ELSE <<>>) \o Kept(i + 1)
    IN Kept(1)

\* words.join(' ')
RECURSIVE JoinSpace(_)
JoinSpace(words) ==
    IF Len(words) = 0 THEN <<>>
    ELSE IF Len(words) = 1 THEN words[1]
    ELSE words[1] \o <<"SP">> \o JoinSpace(Tail(words))

\* text.replace(/\s+/g, ' ')
RECURSIVE CollapseFrom(_, _)
CollapseFrom(text, i) ==
    IF i > Len(text) THEN <<>>
    ELSE IF IsSpace(text[i])
         THEN IF i > 1 /\ IsSpace(text[i - 1])
              THEN CollapseFrom(text, i + 1)
              ELSE <<"SP">> \o CollapseFrom(text, i + 1)
         ELSE <<text[i]>> \o CollapseFrom(text, i + 1)

\* String.prototype.trim
RECURSIVE Trim(_)
Trim(text) ==
    IF text = <<>> THEN text
    ELSE IF IsSpace(text[1]) THEN Trim(Tail(text))
    ELSE IF IsSpace(text[Len(text)]) THEN Trim(SubSeq(text, 1, Len(text) - 1))
    ELSE text

\* The three replace calls of normalizeHebrewText
ReplacePunctuation(text) ==
    [i \in DOMAIN text |->
        CASE text[i] = "gershayim" -> "quote"
          [] text[i] = "geresh" -> "apostrophe"
          [] text[i] = "maqaf" -> "hyphen"
          [] OTHER -> text[i]]

\* finalLetterMap
finalLetterMap ==
    [c \in {"kaf", "mem", "nun", "pe", "tsadi"} |->
        CASE c = "kaf" -> "kafF"
          [] c = "mem" -> "memF"
          [] c = "nun" -> "nunF"
          [] c = "pe" -> "peF"
          [] c = "tsadi" -> "tsadiF"]

\* The callback of words.map in fixFinalLetters
FixWord(word) ==
    IF Len(word) > 1
    THEN LET lastChar == word[Len(word)]
             secondLastChar == word[Len(word) - 1]
         IN IF secondLastChar \in DOMAIN finalLetterMap /\ ~IsHebrewChar(lastChar)
            THEN SubSeq(word, 1, Len(word) - 2)
                    \o <<finalLetterMap[secondLastChar], lastChar>>
            ELSE word
    ELSE word

\* fixFinalLetters
fixFinalLetters(text) ==
    LET words == SplitSpace(text)
    IN JoinSpace([i \in DOMAIN words |-> FixWord(words[i])])

\* Variant of normalizeHebrewText that corrects the final letters before it
\* replaces the punctuation.
normalizeFinalLettersFirst(text) ==
    ReplacePunctuation(fixFinalLetters(Trim(CollapseFrom(text, 1))))

\* normalizeHebrewText
normalizeHebrewText(text) ==
    fixFinalLetters(ReplacePunctuation(Trim(CollapseFrom(text, 1))))

\* tokenize
tokenize(text) ==
    SelectSeq(SplitWhitespace(text), LAMBDA token : Len(token) > 0)

\* analyzeText, the fields the text functions decide
analyzeText(text) ==
    IF ~isHebrewText(text)
    THEN [normalizedText |-> text, tokens |-> SplitSpace(text), isHebrew |-> FALSE]
    ELSE [normalizedText |-> normalizeHebrewText(text),
          tokens |-> tokenize(normalizeHebrewText(text)),
          isHebrew |-> TRUE]

IdleNlp == [stage |-> "input", text |-> <<>>, out |-> <<>>, again |-> <<>>,
            tokens |-> <<>>]

\* The collection before any document is processed.
EmptyIndex == [points |-> {}, processed |-> {},
               jobs |-> [d \in {"docA", "docB"} |-> "none"]]

IdleRun == [stage |-> "idle", agent |-> "A",
            input |-> [type |-> "string", text |-> <<>>], history |-> <<>>,
            isHebrew |-> FALSE, normalizedText |-> <<>>,
            retrieval |-> "none", docs |-> {}, prompt |-> <<>>,
            model |-> "none", saved |-> <<>>, saveFailed |-> FALSE,
            result |-> "none", thrownBy |-> "none",
            functionCalled |-> FALSE, functionDocs |-> {}]

Msg(role, by) == [role |-> role, by |-> by]
Event(type, by) == [type |-> type, by |-> by]

Range(s) == {s[i] : i \in DOMAIN s}

\* orderBy createdAt desc, take n, then reverse(): the last n, oldest first
LastN(s, n) == IF Len(s) <= n THEN s ELSE SubSeq(s, Len(s) - n + 1, Len(s))

IdleTurn == [kind |-> "none", content |-> "empty", pc |-> "idle",
             history |-> <<>>, model |-> "none", saveFailed |-> FALSE,
             result |-> "none"]

IdleOp == [kind |-> "none", pc |-> "idle", seen |-> "ACTIVE", result |-> "none"]

Submitted ==
    Cardinality({t \in Turns : turn[t].kind # "none"})
        + Cardinality({o \in Ops : op[o].kind # "none"})

\* Requests are numbered in the order in which they read the conversation.
NextTurn(t) ==
    /\ Submitted < MaxRequests
    /\ turn[t].kind = "none"
    /\ \A s \in Turns : s < t => turn[s].kind # "none"

NextOp(o) ==
    /\ Submitted < MaxRequests
    /\ op[o].kind = "none"
    /\ \A p \in Ops : p < o => op[p].kind # "none"

(***************************************************************************)
(* The state of the other routes before any request                        *)
(***************************************************************************)

Calls == 1..MaxCalls

\* agents row: version counts the updates of the row; the cache entry
\* agent:<id> holds the row a GET serialized, if any.
AgentRow(version, isActive) == [version |-> version, isActive |-> isActive]
NoEntry == [present |-> FALSE, row |-> AgentRow(0, FALSE)]
Entry(row) == [present |-> TRUE, row |-> row]

IdleCall == [kind |-> "none", user |-> "owner", pc |-> "idle",
             read |-> AgentRow(0, FALSE), floor |-> 0, wrote |-> 0,
             cleared |-> FALSE, result |-> 0, returned |-> 0,
             fromCache |-> FALSE, conversation |-> "none", saved |-> 0]

Sockets == {"s1", "s2"}
ConversationIds == {"c1"}
IdleReview == [stage |-> "idle", messages |-> <<>>, breakdown |-> <<>>,
               result |-> [overall |-> "none", sum |-> 0, count |-> 1]]
Writers == 1..MaxWriters
IdleWriter == [kind |-> "none", pc |-> "idle",
               seen |-> [transfer |-> 0, analysis |-> 0], result |-> "none"]

RestIdle ==
    /\ sockets = [s \in Sockets |-> {}]
    /\ route = [pc |-> "idle", conversation |-> "none",
                status |-> [c \in ConversationIds |-> "ACTIVE"],
                responses |-> {},
                event |-> [type |-> "none", conversation |-> "none",
                           room |-> <<>>, subscribers |-> {}, delivered |-> {}]]
    /\ review = IdleReview
    /\ agent = [row |-> AgentRow(1, TRUE), cache |-> NoEntry]
    /\ call = <<>>
    /\ listing = [stage |-> "idle", user |-> "owner", result |-> {},
                  query |-> [agentId |-> "none", status |-> "none",
                             channel |-> "none", search |-> "none",
                             startDate |-> 0, endDate |-> 0]]
    /\ meta = [status |-> "ACTIVE", notes |-> 0,
               metadata |-> [transfer |-> 0, analysis |-> 0],
               writer |-> <<>>]

\* POST /api/conversations creates the row without a status: the schema
\* default is ACTIVE.
InitWith(s) ==
    /\ status = s
    /\ messages = <<>>
    /\ turn = [t \in Turns |-> IdleTurn]
    /\ op = [o \in Ops |-> IdleOp]
    /\ events = {}
    /\ modelCalls = {}
    /\ endedAt = 0

\* No call of processMessage under study, an empty collection, no text.
AuxIdle ==
    /\ run = IdleRun
    /\ index = EmptyIndex
    /\ nlp = IdleNlp
    /\ RestIdle

Init == InitWith("ACTIVE") /\ AuxIdle

\* PAUSED is a value of the stored enum that no route of the pipeline
\* writes: a conversation paused outside the pipeline starts here.
InitStored == AuxIdle /\ \E s \in {"ACTIVE", "PAUSED"} : InitWith(s)

\* conversations.ts:284  express-validator: body('content').notEmpty()
ValidContent(c) == c # "empty"

\* Variant of IsActive that turns away ended conversations only.
IsActiveOnlyEnded(s) == s # "ENDED"

\* conversations.ts:308  if (conversation.status !== 'ACTIVE') throw 400
IsActive(s) == s = "ACTIVE"

\* POST /:id/messages up to the call of processMessage: validation, read of
\* the conversation with its last 20 messages, status check, typing event.
SendMessage(t, c) ==
    /\ NextTurn(t)
    /\ IF ~ValidContent(c) \/ ~IsActive(status)
       THEN /\ turn' = [turn EXCEPT ![t] = [IdleTurn EXCEPT
                          !.kind = "send", !.content = c,
                          !.pc = "done", !.result = "400"]]
            /\ events' = events
       ELSE /\ turn' = [turn EXCEPT ![t] = [IdleTurn EXCEPT
                          !.kind = "send", !.content = c, !.pc = "invoke",
                          !.history = LastN(messages, RouteHistoryTake)]]
            /\ events' = events \cup {Event("agent:typing", t)}
    /\ UNCHANGED <<status, messages, op, modelCalls>>
    /\ UNCHANGED <<endedAt, aux>>

\* queue.process(handler) without a concurrency argument: Bull runs one job
\* of the queue at a time.
WorkerFree == \A s \in Turns : turn[s].kind = "worker" => turn[s].pc = "done"

\* messageProcessing worker up to the call of processMessage: read of the
\* conversation with its last 10 messages; no validation, no status check.
WorkerJob(t) ==
    /\ NextTurn(t)
    /\ WorkerFree
    /\ turn' = [turn EXCEPT ![t] = [IdleTurn EXCEPT
                  !.kind = "worker", !.content = "text", !.pc = "invoke",
                  !.history = LastN(messages, WorkerHistoryTake)]]
    /\ UNCHANGED <<status, messages, op, events, modelCalls>>
    /\ UNCHANGED <<endedAt, aux>>

\* Variant of TurnFailed that emits no agent:error event.
TurnFailedSilently(t) ==
    /\ events' = events
    /\ turn' = [turn EXCEPT ![t].pc = "done", ![t].model = "failed",
                            ![t].result = IF turn[t].kind = "send" THEN "500"
                                          ELSE "failed"]

\* What the caller of processMessage does when it throws.
TurnFailed(t) ==
    IF turn[t].kind = "send"
    THEN /\ events' = events \cup {Event("agent:error", t)}
         /\ turn' = [turn EXCEPT ![t].pc = "done", ![t].model = "failed",
                                 ![t].result = "500"]
    ELSE /\ events' = events
         /\ turn' = [turn EXCEPT ![t].pc = "done", ![t].model = "failed",
                                 ![t].result = "failed"]

\* Variant of InvokeModel with the USER message persisted before the model
\* is invoked.
InvokeModelSavesUserFirst(t) ==
    /\ turn[t].pc = "invoke"
    /\ modelCalls' = modelCalls \cup {t}
    /\ messages' = Append(messages, Msg("USER", t))
    /\ \/ /\ turn' = [turn EXCEPT ![t].pc = "saveAssistant", ![t].model = "ok"]
          /\ events' = events
       \/ TurnFailed(t)
    /\ UNCHANGED <<status, op>>
    /\ UNCHANGED <<endedAt, aux>>

\* processMessage from analyzeText to model.invoke: the prompt is assembled
\* from the history the caller read, then the model answers or throws.
InvokeModel(t) ==
    /\ turn[t].pc = "invoke"
    /\ modelCalls' = modelCalls \cup {t}
    /\ \/ /\ turn' = [turn EXCEPT ![t].pc = "saveUser", ![t].model = "ok"]
          /\ events' = events
       \/ TurnFailed(t)
    /\ UNCHANGED <<status, messages, op>>
    /\ UNCHANGED <<endedAt, aux>>

\* What the caller of processMessage does when it returns.
TurnReturned(t, failed) ==
    IF turn[t].kind = "send"
    THEN /\ events' = events \cup {Event("message:new", t)}
         /\ turn' = [turn EXCEPT ![t].pc = "done", ![t].result = "200",
                                 ![t].saveFailed = failed]
    ELSE /\ events' = events
         /\ turn' = [turn EXCEPT ![t].pc = "done", ![t].result = "completed",
                                 ![t].saveFailed = failed]

\* saveMessages, first create: the USER message.  A throw is caught and
\* logged by saveMessages, which then returns normally.
SaveUser(t) ==
    /\ turn[t].pc = "saveUser"
    /\ \/ /\ messages' = Append(messages, Msg("USER", t))
          /\ turn' = [turn EXCEPT ![t].pc = "saveAssistant"]
          /\ events' = events
       \/ /\ messages' = messages
          /\ TurnReturned(t, TRUE)
    /\ UNCHANGED <<status, op, modelCalls>>
    /\ UNCHANGED <<endedAt, aux>>

\* saveMessages, second create: the ASSISTANT message, then the return of
\* processMessage to its caller.
SaveAssistant(t) ==
    /\ turn[t].pc = "saveAssistant"
    /\ \/ /\ messages' = Append(messages, Msg("ASSISTANT", t))
          /\ TurnReturned(t, FALSE)
       \/ /\ messages' = messages
          /\ TurnReturned(t, TRUE)
    /\ UNCHANGED <<status, op, modelCalls>>
    /\ UNCHANGED <<endedAt, aux>>

\* PUT /:id/end, findUnique
EndRead(o) ==
    /\ NextOp(o)
    /\ op' = [op EXCEPT ![o] = [IdleOp EXCEPT !.kind = "end", !.pc = "update",
                                              !.seen = status]]
    /\ UNCHANGED <<status, messages, turn, events, modelCalls>>
    /\ UNCHANGED <<endedAt, aux>>

\* PUT /:id/end, conversation.update: ENDED and a new endedAt whatever the
\* stored status is
EndUpdate(o) ==
    /\ op[o].kind = "end" /\ op[o].pc = "update"
    /\ status' = "ENDED"
    /\ op' = [op EXCEPT ![o].pc = "metrics"]
    /\ UNCHANGED <<messages, turn, events, modelCalls>>
    /\ endedAt' = o
    /\ UNCHANGED aux

\* PUT /:id/end, message.findMany, the conversation:ended event, the reply
EndMetrics(o) ==
    /\ op[o].kind = "end" /\ op[o].pc = "metrics"
    /\ events' = events \cup {Event("conversation:ended", o)}
    /\ op' = [op EXCEPT ![o].pc = "done", ![o].result = "200"]
    /\ UNCHANGED <<status, messages, turn, modelCalls>>
    /\ UNCHANGED <<endedAt, aux>>

\* PUT /:id/transfer, findUnique
TransferRead(o) ==
    /\ NextOp(o)
    /\ op' = [op EXCEPT ![o] = [IdleOp EXCEPT !.kind = "transfer",
                                              !.pc = "update", !.seen = status]]
    /\ UNCHANGED <<status, messages, turn, events, modelCalls>>
    /\ UNCHANGED <<endedAt, aux>>

\* PUT /:id/transfer, conversation.update
TransferUpdate(o) ==
    /\ op[o].kind = "transfer" /\ op[o].pc = "update"
    /\ status' = "TRANSFERRED"
    /\ op' = [op EXCEPT ![o].pc = "create"]
    /\ UNCHANGED <<messages, turn, events, modelCalls>>
    /\ UNCHANGED <<endedAt, aux>>

\* PUT /:id/transfer, message.create of the SYSTEM message, the
\* conversation:transferred event, the reply
TransferCreate(o) ==
    /\ op[o].kind = "transfer" /\ op[o].pc = "create"
    /\ messages' = Append(messages, Msg("SYSTEM", o))
    /\ events' = events \cup {Event("conversation:transferred", o)}
    /\ op' = [op EXCEPT ![o].pc = "done", ![o].result = "200"]
    /\ UNCHANGED <<status, turn, modelCalls>>
    /\ UNCHANGED <<endedAt, aux>>

Next ==
    \/ \E t \in Turns, c \in Contents : SendMessage(t, c)
    \/ \E t \in Turns : WorkerJob(t)
    \/ \E t \in Turns : InvokeModel(t)
    \/ \E t \in Turns : SaveUser(t)
    \/ \E t \in Turns : SaveAssistant(t)
    \/ \E o \in Ops : EndRead(o)
    \/ \E o \in Ops : EndUpdate(o)
    \/ \E o \in Ops : EndMetrics(o)
    \/ \E o \in Ops : TransferRead(o)
    \/ \E o \in Ops : TransferUpdate(o)
    \/ \E o \in Ops : TransferCreate(o)

Spec == Init /\ [][Next]_vars

\* The same pipeline on a conversation whose stored status may be PAUSED.
SpecStored == InitStored /\ [][Next]_vars

(***************************************************************************)
(* Vector store (VectorStore) and the document-processing worker           *)
(***************************************************************************)

Agents == {"A", "B"}

\* Document-processing jobs: the document, the agent that owns it and the
\* number of chunks chunkText cuts its content into.
DocumentJobs ==
    {[documentId |-> "docA", agentId |-> "A", chunks |-> 2],
     [documentId |-> "docB", agentId |-> "B", chunks |-> 1]}

\* The agent a chunk belongs to: the owner of its source document.
Owner(content) ==
    (CHOOSE job \in DocumentJobs : job.documentId = content.documentId).agentId

\* The Document objects the worker builds from the chunks of a job; the
\* chunk text is written as the place it was cut from.
Documents(job) ==
    [i \in 1..job.chunks |->
        [pageContent |-> [documentId |-> job.documentId, chunkIndex |-> i - 1],
         metadata |-> [documentId |-> job.documentId,
                       agentId |-> job.agentId,
                       chunkIndex |-> i - 1,
                       totalChunks |-> job.chunks]]]

\* generateId: Date.now() and Math.random() give an id no stored point has.
generateId(points, i) ==
    LET Ids == {pt.id : pt \in points}
        Largest == IF Ids = {} THEN 0
                   ELSE CHOOSE n \in Ids : \A m \in Ids : m <= n
    IN Largest + i

\* id: doc.metadata.id || this.generateId()
PointId(doc, fresh) ==
    IF "id" \in DOMAIN doc.metadata THEN doc.metadata.id ELSE fresh

\* PUT /collections/:name/points: a point replaces the stored point of the
\* same id.
Upsert(points, new) ==
    {pt \in points : \A q \in new : q.id # pt.id} \cup new

\* addDocuments(documents, metadata): one point per document, payload
\* { content, ...doc.metadata, ...metadata }, one batch upsert.
addDocuments(points, documents, metadata) ==
    Upsert(points,
           {[id |-> PointId(documents[i], generateId(points, i)),
             payload |-> [content |-> documents[i].pageContent,
                          documentId |-> documents[i].metadata.documentId,
                          chunkIndex |-> documents[i].metadata.chunkIndex,
                          totalChunks |-> documents[i].metadata.totalChunks,
                          agentId |-> metadata.agentId]]
            : i \in DOMAIN documents})

\* Variant of buildQdrantFilter that returns no condition.
buildQdrantFilterNoCondition(filter) == [must |-> {}]

\* buildQdrantFilter: one must condition per key of the filter.  A scalar
\* value v is matched as { value: v }, an array as { any: [...] }: both are
\* written as the set of accepted values.
buildQdrantFilter(filter) ==
    [must |-> {[key |-> k, any |-> {filter[k]}] : k \in DOMAIN filter}]

\* Qdrant's must: every condition holds for the payload of the point.
Matches(pt, qfilter) ==
    \A c \in qfilter.must :
        c.key \in DOMAIN pt.payload /\ pt.payload[c.key] \in c.any

\* The hit lists a search with limit k and the filter can answer with: k of
\* the matching points, or all of them when there are fewer; which ones
\* depends on the scores.
SearchResults(points, k, filter) ==
    LET matching == {pt \in points : Matches(pt, buildQdrantFilter(filter))}
    IN {hits \in SUBSET matching :
            Cardinality(hits) = IF Cardinality(matching) < k
                                THEN Cardinality(matching) ELSE k}

\* What a search meets: the embedding request fails, the search request
\* fails, or Qdrant answers.
SearchOutcomes == {"embedFail", "searchFail", "ok"}

\* similaritySearch(query, k, filter): throws when embedQuery or the search
\* request throws, else maps the hits to their content and payload.
similaritySearch(outcome, hits) ==
    IF outcome = "ok"
    THEN [thrown |-> FALSE, results |-> hits]
    ELSE [thrown |-> TRUE, results |-> {}]

\* Variant of getRelevantContext without the catch.
getRelevantContextRethrows(outcome, hits) ==
    [thrown |-> similaritySearch(outcome, hits).thrown,
     docs |-> {r.payload.content : r \in similaritySearch(outcome, hits).results}]

\* getRelevantContext: the contents of the results; [] when the search threw.
getRelevantContext(outcome, hits) ==
    IF similaritySearch(outcome, hits).thrown
    THEN [thrown |-> FALSE, docs |-> {}]
    ELSE [thrown |-> FALSE,
          docs |-> {r.payload.content : r \in similaritySearch(outcome, hits).results}]

\* The collection after each job has been processed once, docA first.
SeedIndex ==
    LET jobA == CHOOSE job \in DocumentJobs : job.documentId = "docA"
        jobB == CHOOSE job \in DocumentJobs : job.documentId = "docB"
        afterA == addDocuments({}, Documents(jobA), [agentId |-> jobA.agentId])
    IN [points |-> addDocuments(afterA, Documents(jobB), [agentId |-> jobB.agentId]),
        processed |-> {"docA", "docB"},
        jobs |-> [d \in {"docA", "docB"} |-> "completed"]]

(***************************************************************************)
(* One call of processMessage (AgentEngine)                                *)
(***************************************************************************)

Roles == {"USER", "ASSISTANT", "SYSTEM"}

\* Histories: every role pattern of period 3, cut at every length up to
\* MaxHistory; a message is written as its role and its place in the history.
HistoryOf(pattern, n) ==
    [i \in 1..n |-> [role |-> pattern[((i - 1) % 3) + 1], at |-> i]]

Histories ==
    {HistoryOf(pattern, n) : pattern \in [1..3 -> Roles], n \in 0..MaxHistory}

\* context.userInput: req.body.content is not checked to be a string.
UserInputs ==
    {[type |-> "string", text |-> <<"a", "SP", "SP", "a">>],
     [type |-> "string", text |-> <<"mem", "a", "TAB", "yod">>],
     [type |-> "number", text |-> <<>>]}

PromptMessage(type, at, content, hebrew, knowledge) ==
    [type |-> type, at |-> at, content |-> content,
     hebrew |-> hebrew, knowledge |-> knowledge]

\* The loop of buildMessages over a slice of the history
RECURSIVE Replay(_)
Replay(slice) ==
    IF slice = <<>> THEN <<>>
    ELSE (IF slice[1].role = "USER"
          THEN <<PromptMessage("human", slice[1].at, <<>>, FALSE, FALSE)>>
          ELSE IF slice[1].role = "ASSISTANT"
          THEN <<PromptMessage("ai", slice[1].at, <<>>, FALSE, FALSE)>>
          ELSE <<>>)
         \o Replay(Tail(slice))

\* Variant of buildMessages that replays the whole history.
buildMessagesWholeHistory(history, userInput, isHebrew, relevantDocs) ==
    <<PromptMessage("system", 0, <<>>, isHebrew, relevantDocs # {})>>
        \o Replay(history)
        \o <<PromptMessage("human", 0, userInput, FALSE, FALSE)>>

\* buildMessages: the system prompt with the Hebrew instruction and the
\* knowledge section, the last 10 messages of the history, the user input.
buildMessages(history, userInput, isHebrew, relevantDocs) ==
    <<PromptMessage("system", 0, <<>>, isHebrew, relevantDocs # {})>>
        \o Replay(LastN(history, HistoryWindow))
        \o <<PromptMessage("human", 0, userInput, FALSE, FALSE)>>

(***************************************************************************)
(* processMessage step by step, and the document-processing worker         *)
(***************************************************************************)

InitTurn ==
    /\ InitWith("ACTIVE")
    /\ RestIdle
    /\ nlp = IdleNlp
    /\ index \in {EmptyIndex, SeedIndex}
    /\ \E input \in UserInputs, history \in Histories :
            run = [IdleRun EXCEPT !.stage = "analyze", !.input = input,
                                  !.history = history]

InitIndex ==
    /\ InitWith("ACTIVE")
    /\ RestIdle
    /\ nlp = IdleNlp
    /\ index = EmptyIndex
    /\ \E a \in Agents :
            run = [IdleRun EXCEPT !.stage = "analyze", !.agent = a,
                                  !.input = [type |-> "string",
                                             text |-> <<"mem", "a", "TAB", "yod">>]]

\* The catch of processMessage: log and rethrow.
Rethrown(r, by) == [r EXCEPT !.stage = "done", !.result = "thrown", !.thrownBy = by]

\* processMessage, hebrewNLP.analyzeText(context.userInput): isHebrewText
\* coerces its argument, text.split and text.replace exist on strings only.
AnalyzeInput ==
    /\ run.stage = "analyze"
    /\ IF run.input.type = "string"
       THEN run' = [run EXCEPT !.stage = "retrieve",
                       !.isHebrew = analyzeText(run.input.text).isHebrew,
                       !.normalizedText = analyzeText(run.input.text).normalizedText]
       ELSE run' = Rethrown(run, "analyzeText")
    /\ UNCHANGED <<conv, index, nlp, rest>>

\* processMessage, getRelevantContext(context.agent.id, normalizedText)
RetrieveContext ==
    /\ run.stage = "retrieve"
    /\ \E outcome \in SearchOutcomes,
          hits \in SearchResults(index.points, SearchLimit, [agentId |-> run.agent]) :
            LET r == getRelevantContext(outcome, hits)
            IN IF r.thrown
               THEN run' = [Rethrown(run, "getRelevantContext") EXCEPT
                                !.retrieval = outcome]
               ELSE run' = [run EXCEPT !.stage = "invoke", !.retrieval = outcome,
                                       !.docs = r.docs]
    /\ UNCHANGED <<conv, index, nlp, rest>>

\* processMessage, buildMessages and model.invoke(messages)
BuildAndInvoke ==
    /\ run.stage = "invoke"
    /\ \E answer \in {"ok", "failed"} :
         LET built == [run EXCEPT !.model = answer,
                           !.prompt = buildMessages(run.history, run.input.text,
                                                    run.isHebrew, run.docs)]
         IN IF answer = "ok"
            THEN run' = [built EXCEPT !.stage = "saveUser"]
            ELSE run' = Rethrown(built, "model")
    /\ UNCHANGED <<conv, index, nlp, rest>>

\* saveMessages, first create; a throw is caught and logged, and
\* processMessage returns the response.
SaveUserMessage ==
    /\ run.stage = "saveUser"
    /\ \/ run' = [run EXCEPT !.stage = "saveAssistant", !.saved = <<"USER">>]
       \/ run' = [run EXCEPT !.stage = "done", !.result = "returned",
                             !.saveFailed = TRUE]
    /\ UNCHANGED <<conv, index, nlp, rest>>

\* saveMessages, second create, and the return of processMessage
SaveAssistantMessage ==
    /\ run.stage = "saveAssistant"
    /\ \/ run' = [run EXCEPT !.stage = "done", !.result = "returned",
                             !.saved = Append(run.saved, "ASSISTANT")]
       \/ run' = [run EXCEPT !.stage = "done", !.result = "returned",
                             !.saveFailed = TRUE]
    /\ UNCHANGED <<conv, index, nlp, rest>>

\* handleFunctionCall(context, 'search_knowledge_base', { query })
SearchKnowledgeBase ==
    /\ ~run.functionCalled
    /\ \E outcome \in SearchOutcomes,
          hits \in SearchResults(index.points, SearchLimit, [agentId |-> run.agent]) :
            run' = [run EXCEPT !.functionCalled = TRUE,
                               !.functionDocs = getRelevantContext(outcome, hits).docs]
    /\ UNCHANGED <<conv, index, nlp, rest>>

\* The documentProcessing worker on one delivery of a job: analyzeText,
\* chunkText, addDocuments, document.update.  A throw fails the job; the
\* points of a successful upsert stay when document.update throws.
ProcessDocument(job) ==
    /\ Cardinality(index.points) + job.chunks <= MaxPoints
    /\ \E outcome \in {"addFailed", "updateFailed", "completed"} :
         LET added == addDocuments(index.points, Documents(job),
                                   [agentId |-> job.agentId])
         IN index' =
              [points |-> IF outcome = "addFailed" THEN index.points ELSE added,
               processed |-> IF outcome = "completed"
                             THEN index.processed \cup {job.documentId}
                             ELSE index.processed,
               jobs |-> [index.jobs EXCEPT ![job.documentId] =
                            IF outcome = "completed" THEN "completed" ELSE "failed"]]
    /\ UNCHANGED <<conv, run, nlp, rest>>

NextRun ==
    \/ AnalyzeInput
    \/ RetrieveContext
    \/ BuildAndInvoke
    \/ SaveUserMessage
    \/ SaveAssistantMessage

SpecTurn == InitTurn /\ [][NextRun]_vars

NextIndex ==
    \/ \E job \in DocumentJobs : ProcessDocument(job)
    \/ SearchKnowledgeBase
    \/ NextRun

SpecIndex == InitIndex /\ [][NextIndex]_vars

(***************************************************************************)
(* The text functions applied to one text                                  *)
(***************************************************************************)

InitText ==
    /\ InitWith("ACTIVE")
    /\ RestIdle
    /\ run = IdleRun
    /\ index = EmptyIndex
    /\ \E text \in Texts : nlp = [IdleNlp EXCEPT !.text = text]

\* normalizeHebrewText(text)
NormalizeText ==
    /\ nlp.stage = "input"
    /\ nlp' = [nlp EXCEPT !.stage = "normalized",
                          !.out = normalizeHebrewText(nlp.text)]
    /\ UNCHANGED <<conv, run, index, rest>>

\* normalizeHebrewText applied to its own result
NormalizeAgain ==
    /\ nlp.stage = "normalized"
    /\ nlp' = [nlp EXCEPT !.stage = "renormalized",
                          !.again = normalizeHebrewText(nlp.out)]
    /\ UNCHANGED <<conv, run, index, rest>>

\* fixFinalLetters(text)
FixFinalLetters ==
    /\ nlp.stage = "input"
    /\ nlp' = [nlp EXCEPT !.stage = "fixed", !.out = fixFinalLetters(nlp.text)]
    /\ UNCHANGED <<conv, run, index, rest>>

\* analyzeText(text)
AnalyzeText ==
    /\ nlp.stage = "input"
    /\ nlp' = [nlp EXCEPT !.stage = "analyzed",
                          !.out = analyzeText(nlp.text).normalizedText,
                          !.tokens = analyzeText(nlp.text).tokens]
    /\ UNCHANGED <<conv, run, index, rest>>

NextText ==
    \/ NormalizeText
    \/ NormalizeAgain
    \/ FixFinalLetters
    \/ AnalyzeText

SpecText == InitText /\ [][NextText]_vars

(***************************************************************************)
(* Agent routes (agents.ts) on one agent, with permissions and the cache   *)
(***************************************************************************)

\* The requesting users: the owner of the agent's organization and a user
\* of another organization; neither has the system role ADMIN.
Users == {"owner", "outsider"}

SystemRole(user) == "USER"

\* prisma.userOrganization.findFirst({ userId, organizationId }) for the
\* agent's organization: the role of the membership, "none" without one.
OrgRole(user) ==
    CASE user = "owner" -> "OWNER"
      [] OTHER -> "none"

\* checkOrgRolePermission for the resources 'agent' and 'conversation',
\* whose rows are equal in every role
checkOrgRolePermission(role, action) ==
    CASE role \in {"OWNER", "ADMIN"} -> action \in {"create", "read", "update", "delete"}
      [] role = "MEMBER" -> action \in {"create", "read", "update"}
      [] role = "VIEWER" -> action \in {"read"}
      [] OTHER -> FALSE

\* checkPermission(user, action, resource, agent.organizationId): TRUE when
\* it returns, FALSE when it throws AppError 403.
checkPermission(user, action) ==
    \/ SystemRole(user) = "ADMIN"
    \/ /\ OrgRole(user) # "none"
       /\ checkOrgRolePermission(OrgRole(user), action)

\* Requests are numbered in the order in which they arrive: call holds
\* the requests that have arrived.
NextCall(c) == c = Len(call) + 1

\* The newest version written by a PUT or DELETE that has completed with
\* the cache key deleted.
Settled ==
    LET versions == {call[c].wrote : c \in {d \in DOMAIN call : call[d].pc = "done"
                                                        /\ call[d].cleared}}
    IN IF versions = {} THEN 0
       ELSE CHOOSE v \in versions : \A w \in versions : w <= v

\* GET /:id, cache.get: a hit is answered at once; a miss, or a failed
\* get (cache.get catches and returns null), goes on to the database.
GetCacheLookup(c, user) ==
    /\ NextCall(c)
    /\ \/ /\ agent.cache.present
          /\ call' = Append(call, [IdleCall EXCEPT
                        !.kind = "get", !.user = user, !.pc = "done",
                        !.floor = Settled, !.result = 200, !.fromCache = TRUE,
                        !.returned = agent.cache.row.version])
       \/ call' = Append(call, [IdleCall EXCEPT
                        !.kind = "get", !.user = user, !.pc = "find",
                        !.floor = Settled])
    /\ UNCHANGED <<conv, run, index, nlp, sockets, route, review, agent,
                   listing, meta>>

\* GET /:id, prisma.agent.findUnique and checkPermission(read)
GetFindUnique(c) ==
    /\ call[c].kind = "get" /\ call[c].pc = "find"
    /\ IF checkPermission(call[c].user, "read")
       THEN call' = [call EXCEPT ![c].pc = "set", ![c].read = agent.row]
       ELSE call' = [call EXCEPT ![c].pc = "done", ![c].read = agent.row,
                                 ![c].result = 403]
    /\ UNCHANGED <<conv, run, index, nlp, sockets, route, review, agent,
                   listing, meta>>

\* GET /:id, cache.set(cacheKey, agent, 300) with the row read before, and
\* the reply; a failed set is logged by cache.set.
GetCacheSet(c) ==
    /\ call[c].kind = "get" /\ call[c].pc = "set"
    /\ \/ agent' = [agent EXCEPT !.cache = Entry(call[c].read)]
       \/ agent' = agent
    /\ call' = [call EXCEPT ![c].pc = "done", ![c].result = 200,
                            ![c].returned = call[c].read.version]
    /\ UNCHANGED <<conv, run, index, nlp, sockets, route, review, listing, meta>>

\* The entry expires 300 seconds after it was set.
CacheExpire ==
    /\ agent.cache.present
    /\ agent' = [agent EXCEPT !.cache = NoEntry]
    /\ UNCHANGED <<conv, run, index, nlp, sockets, route, review, call,
                   listing, meta>>

\* The conversations that reference the agent: the test conversations.
ConversationCount ==
    Cardinality({c \in DOMAIN call : call[c].conversation = "exists"})

\* PUT /:id and DELETE /:id, findUnique and checkPermission; DELETE refuses
\* an agent that has conversations.
WriteFindUnique(c, user, kind) ==
    /\ NextCall(c)
    /\ LET started == [IdleCall EXCEPT !.kind = kind, !.user = user,
                                       !.read = agent.row]
       IN IF ~checkPermission(user, IF kind = "put" THEN "update" ELSE "delete")
          THEN call' = Append(call, [started EXCEPT !.pc = "done",
                                                           !.result = 403])
          ELSE IF kind = "delete" /\ ConversationCount > 0
          THEN call' = Append(call, [started EXCEPT !.pc = "done",
                                                           !.result = 400])
          ELSE call' = Append(call, [started EXCEPT !.pc = "update"])
    /\ UNCHANGED <<conv, run, index, nlp, sockets, route, review, agent,
                   listing, meta>>

\* PUT /:id, prisma.agent.update with the request body; DELETE /:id,
\* prisma.agent.update({ isActive: false })
AgentUpdate(c) ==
    /\ call[c].kind \in {"put", "delete"} /\ call[c].pc = "update"
    /\ agent' = [agent EXCEPT !.row =
                    AgentRow(agent.row.version + 1,
                             IF call[c].kind = "delete" THEN FALSE
                             ELSE agent.row.isActive)]
    /\ call' = [call EXCEPT ![c].pc = "del", ![c].wrote = agent.row.version + 1]
    /\ UNCHANGED <<conv, run, index, nlp, sockets, route, review, listing, meta>>

\* PUT /:id and DELETE /:id, cache.del and the reply; a failed del is
\* logged by cache.del.
AgentCacheDel(c) ==
    /\ call[c].kind \in {"put", "delete"} /\ call[c].pc = "del"
    /\ \/ /\ agent' = [agent EXCEPT !.cache = NoEntry]
          /\ call' = [call EXCEPT ![c].pc = "done", ![c].result = 200,
                                  ![c].cleared = TRUE]
       \/ /\ agent' = agent
          /\ call' = [call EXCEPT ![c].pc = "done", ![c].result = 200]
    /\ UNCHANGED <<conv, run, index, nlp, sockets, route, review, listing, meta>>

\* POST /:id/test, findUnique, the isActive test and checkPermission(read)
TestFindUnique(c, user) ==
    /\ NextCall(c)
    /\ LET started == [IdleCall EXCEPT !.kind = "test", !.user = user,
                                       !.read = agent.row]
       IN IF ~agent.row.isActive
          THEN call' = Append(call, [started EXCEPT !.pc = "done",
                                                           !.result = 404])
          ELSE IF ~checkPermission(user, "read")
          THEN call' = Append(call, [started EXCEPT !.pc = "done",
                                                           !.result = 403])
          ELSE call' = Append(call, [started EXCEPT !.pc = "create"])
    /\ UNCHANGED <<conv, run, index, nlp, sockets, route, review, agent,
                   listing, meta>>

\* POST /:id/test, prisma.conversation.create of the test conversation
TestCreate(c) ==
    /\ call[c].kind = "test" /\ call[c].pc = "create"
    /\ call' = [call EXCEPT ![c].pc = "process", ![c].conversation = "exists"]
    /\ UNCHANGED <<conv, run, index, nlp, sockets, route, review, agent,
                   listing, meta>>

\* POST /:id/test, processMessage on the test conversation: it throws
\* before saveMessages (500), or returns after saveMessages has created two
\* messages, one (the ASSISTANT create threw) or none (the USER create
\* threw), and the reply is sent.
TestProcess(c) ==
    /\ call[c].kind = "test" /\ call[c].pc = "process"
    /\ \/ call' = [call EXCEPT ![c].pc = "cleanup", ![c].result = 500]
       \/ \E n \in 0..2 :
            call' = [call EXCEPT ![c].pc = "cleanup", ![c].result = 200,
                                 ![c].saved = n]
    /\ UNCHANGED <<conv, run, index, nlp, sockets, route, review, agent,
                   listing, meta>>

\* POST /:id/test, finally: prisma.conversation.delete.  Message.conversation
\* is a required relation without onDelete: the delete is refused while a
\* message references the conversation.
TestCleanup(c) ==
    /\ call[c].kind = "test" /\ call[c].pc = "cleanup"
    /\ IF call[c].saved > 0
       THEN call' = [call EXCEPT ![c].pc = "done"]
       ELSE call' = [call EXCEPT ![c].pc = "done", ![c].conversation = "deleted"]
    /\ UNCHANGED <<conv, run, index, nlp, sockets, route, review, agent,
                   listing, meta>>

NextAgents ==
    \/ \E c \in Calls, user \in Users : GetCacheLookup(c, user)
    \/ \E c \in DOMAIN call : GetFindUnique(c)
    \/ \E c \in DOMAIN call : GetCacheSet(c)
    \/ CacheExpire
    \/ \E c \in Calls, user \in Users, kind \in {"put", "delete"} :
            WriteFindUnique(c, user, kind)
    \/ \E c \in DOMAIN call : AgentUpdate(c)
    \/ \E c \in DOMAIN call : AgentCacheDel(c)
    \/ \E c \in Calls, user \in Users : TestFindUnique(c, user)
    \/ \E c \in DOMAIN call : TestCreate(c)
    \/ \E c \in DOMAIN call : TestProcess(c)
    \/ \E c \in DOMAIN call : TestCleanup(c)

SpecAgents == Init /\ [][NextAgents]_vars

(***************************************************************************)
(* Socket rooms, the events of the conversation routes and their replies   *)
(***************************************************************************)

\* `conversation-${conversationId}` of the socket handlers
SocketRoom(id) == <<"conversation", "-", id>>

\* `conversation:${id}` of the routes
RouteRoom(id) == <<"conversation", ":", id>>

\* socket.on('join-conversation')
JoinConversation(s, id) ==
    /\ SocketRoom(id) \notin sockets[s]
    /\ sockets' = [sockets EXCEPT ![s] = @ \cup {SocketRoom(id)}]
    /\ UNCHANGED <<conv, run, index, nlp, route, review, agent, call, listing, meta>>

\* socket.on('leave-conversation')
LeaveConversation(s, id) ==
    /\ SocketRoom(id) \in sockets[s]
    /\ sockets' = [sockets EXCEPT ![s] = @ \ {SocketRoom(id)}]
    /\ UNCHANGED <<conv, run, index, nlp, route, review, agent, call, listing, meta>>

\* io.to(room).emit(type, { conversationId: id }): the event goes to the
\* sockets that are in the room; subscribers are the sockets that joined
\* the conversation and have not left.
Emit(room, type, id) ==
    [type |-> type, conversation |-> id, room |-> room,
     subscribers |-> {s \in Sockets : SocketRoom(id) \in sockets[s]},
     delivered |-> {s \in Sockets : room \in sockets[s]}]

AppError(message, statusCode) == [message |-> message, statusCode |-> statusCode]

\* errorHandler: res.status(error.statusCode || 500).json({ success: false,
\* error: { message: error.message || 'Server Error' } })
errorHandler(err) ==
    [status |-> IF err.statusCode = 0 THEN 500 ELSE err.statusCode,
     success |-> FALSE,
     message |-> IF err.message = "" THEN "Server Error" ELSE err.message]

Reply(cause, response) ==
    [cause |-> cause, status |-> response.status, success |-> response.success,
     message |-> response.message]

\* POST /:id/messages up to the typing indicator: validation, findUnique,
\* the status test, checkPermission, and the agent:typing event.
RouteReceive(id, valid, user) ==
    /\ route.pc = "idle"
    /\ LET refused(cause, err) ==
               route' = [route EXCEPT !.conversation = id,
                            !.responses = @ \cup {Reply(cause, errorHandler(err))}]
       IN IF ~valid
          THEN refused("validation", AppError("Validation failed", 400))
          ELSE IF id \notin ConversationIds
          THEN refused("missing", AppError("Conversation not found", 404))
          ELSE IF route.status[id] # "ACTIVE"
          THEN refused("notActive", AppError("Conversation is not active", 400))
          ELSE IF ~checkPermission(user, "update")
          THEN refused("permission", AppError("Access denied", 403))
          ELSE route' = [route EXCEPT !.pc = "processing", !.conversation = id,
                            !.event = Emit(RouteRoom(id), "agent:typing", id)]
    /\ UNCHANGED <<conv, run, index, nlp, sockets, review, agent, call, listing, meta>>

\* POST /:id/messages, the try block: processMessage returns (also when
\* saveMessages failed, which it catches), or throws because the model
\* provider failed or because another step of processMessage threw.
RouteProcess(outcome) ==
    /\ route.pc = "processing"
    /\ LET id == route.conversation
       IN IF outcome \in {"returned", "persistence"}
          THEN route' = [route EXCEPT !.pc = "idle",
                            !.event = Emit(RouteRoom(id), "message:new", id),
                            !.responses = @ \cup
                                {Reply(outcome, [status |-> 200, success |-> TRUE,
                                                 message |-> ""])}]
          ELSE route' = [route EXCEPT !.pc = "idle",
                            !.event = Emit(RouteRoom(id), "agent:error", id),
                            !.responses = @ \cup
                                {Reply(outcome, errorHandler(
                                    AppError("Failed to process message", 500)))}]
    /\ UNCHANGED <<conv, run, index, nlp, sockets, review, agent, call, listing, meta>>

\* PUT /:id/end by a permitted user: the update and the conversation:ended
\* event.
RouteEnd(id) ==
    /\ route.pc = "idle"
    /\ route' = [route EXCEPT !.conversation = id, !.status[id] = "ENDED",
                              !.event = Emit(RouteRoom(id), "conversation:ended", id)]
    /\ UNCHANGED <<conv, run, index, nlp, sockets, review, agent, call, listing, meta>>

NextRoute ==
    \/ \E s \in Sockets, id \in ConversationIds : JoinConversation(s, id)
    \/ \E s \in Sockets, id \in ConversationIds : LeaveConversation(s, id)
    \/ \E id \in ConversationIds \cup {"c0"}, valid \in BOOLEAN, user \in Users :
            RouteReceive(id, valid, user)
    \/ \E outcome \in {"returned", "persistence", "provider", "internal"} :
            RouteProcess(outcome)
    \/ \E id \in ConversationIds : RouteEnd(id)

SpecRoute == Init /\ [][NextRoute]_vars

(***************************************************************************)
(* Sentiment of a conversation (GET /:id)                                  *)
(***************************************************************************)

\* Scores and confidences are counted in tenths: 2 is 0.2, 10 is 1.

\* Variant of analyzeSentiment that scores a text by its length and labels
\* it neutral.
analyzeSentimentByLength(text) ==
    [score |-> Len(text), label |-> "neutral", confidence |-> 5]

\* HebrewNLPService.analyzeSentiment
analyzeSentiment(text) == [score |-> 0, label |-> "neutral", confidence |-> 5]

\* The sentiment field of analyzeText(text)
Sentiment(text) ==
    IF ~isHebrewText(text)
    THEN [score |-> 0, label |-> "neutral", confidence |-> 0]
    ELSE analyzeSentiment(normalizeHebrewText(text))

\* The messages of the analysed conversation
ReviewMessages ==
    [role : {"USER", "ASSISTANT"},
     content : {<<"a">>, <<"mem", "yod">>, <<"mem", "SP", "SP", "mem">>}]

RECURSIVE SumScores(_)
SumScores(sentiments) ==
    IF sentiments = <<>> THEN 0
    ELSE sentiments[1].score + SumScores(Tail(sentiments))

\* avgScore > 0.2 ? 'positive' : avgScore < -0.2 ? 'negative' : 'neutral',
\* with avgScore = sum / count
Overall(sum, count) ==
    IF sum > 2 * count THEN "positive"
    ELSE IF sum < (-2) * count THEN "negative"
    ELSE "neutral"

\* GET /:id, findUnique with the messages of the conversation
ReviewRead(msgs) ==
    /\ review.stage \in {"idle", "done"}
    /\ review' = [IdleReview EXCEPT !.stage = "analyze", !.messages = msgs]
    /\ UNCHANGED <<conv, run, index, nlp, sockets, route, agent, call, listing, meta>>

\* analyzeConversationSentiment, the filter on USER messages and the
\* analyzeText calls
ReviewAnalyze ==
    /\ review.stage = "analyze"
    /\ LET userMessages == SelectSeq(review.messages, LAMBDA m : m.role = "USER")
       IN review' = [review EXCEPT !.stage = "average",
                        !.breakdown = [i \in DOMAIN userMessages |->
                                          Sentiment(userMessages[i].content)]]
    /\ UNCHANGED <<conv, run, index, nlp, sockets, route, agent, call, listing, meta>>

\* analyzeConversationSentiment, the average and its label
ReviewAverage ==
    /\ review.stage = "average"
    /\ review' = [review EXCEPT !.stage = "done", !.result =
            IF review.breakdown = <<>>
            THEN [overall |-> "neutral", sum |-> 0, count |-> 1]
            ELSE [overall |-> Overall(SumScores(review.breakdown),
                                      Len(review.breakdown)),
                  sum |-> SumScores(review.breakdown),
                  count |-> Len(review.breakdown)]]
    /\ UNCHANGED <<conv, run, index, nlp, sockets, route, agent, call, listing, meta>>

NextSentiment ==
    \/ \E n \in 0..MaxReview : \E msgs \in [1..n -> ReviewMessages] : ReviewRead(msgs)
    \/ ReviewAnalyze
    \/ ReviewAverage

SpecSentiment == Init /\ [][NextSentiment]_vars

(***************************************************************************)
(* The reply of the model on its way out (postProcessResponse)             *)
(***************************************************************************)

\* The characters of a model reply: a space, a Latin letter, a digit, a
\* Hebrew letter.
ReplyChars == {"SP", "a", "1", "mem"}

RECURSIVE RepliesOfLen(_)
RepliesOfLen(n) ==
    IF n = 0 THEN {<<>>}
    ELSE {Append(w, c) : w \in RepliesOfLen(n - 1), c \in ReplyChars}

\* response.content.toString()
Replies == UNION {RepliesOfLen(n) : n \in 1..MaxLen}

\* The classes \d and [a-zA-Z]
Digits == {"1"}
Latin == {"a"}

\* The end of the run of characters of the class that starts at i
RECURSIVE RunEnd(_, _, _)
RunEnd(text, i, class) ==
    IF i < Len(text) /\ text[i + 1] \in class THEN RunEnd(text, i + 1, class)
    ELSE i

\* text.replace(/(class+)/g, '‭$1‬') from position i on
RECURSIVE WrapFrom(_, _, _)
WrapFrom(text, i, class) ==
    IF i > Len(text) THEN <<>>
    ELSE IF text[i] \in class
    THEN <<"LRO">> \o SubSeq(text, i, RunEnd(text, i, class)) \o <<"PDF">>
            \o WrapFrom(text, RunEnd(text, i, class) + 1, class)
    ELSE <<text[i]>> \o WrapFrom(text, i + 1, class)

\* fixRTLFormatting
fixRTLFormatting(text) == WrapFrom(WrapFrom(text, 1, Digits), 1, Latin)

\* postProcessResponse(content, isHebrew).content
postProcessResponse(content, isHebrew) ==
    IF isHebrew
    THEN analyzeText(fixRTLFormatting(content)).normalizedText
    ELSE content

\* processMessage, postProcessResponse of the reply of the model; isHebrew
\* is textAnalysis.isHebrew of the user input.
PostProcessResponse(content, isHebrew) ==
    /\ nlp.stage = "input"
    /\ nlp' = [IdleNlp EXCEPT
                  !.stage = IF isHebrew THEN "replied" ELSE "passed",
                  !.text = content,
                  !.out = postProcessResponse(content, isHebrew),
                  !.again = normalizeHebrewText(postProcessResponse(content, isHebrew))]
    /\ UNCHANGED <<conv, run, index, rest>>

NextReply ==
    \E content \in Replies, isHebrew \in BOOLEAN : PostProcessResponse(content, isHebrew)

SpecReply == Init /\ [][NextReply]_vars

(***************************************************************************)
(* The list of conversations (GET /api/conversations)                      *)
(***************************************************************************)

\* agent.organizationId of the two agents
AgentOrganization(a) == IF a = "A" THEN "org1" ELSE "org2"

\* prisma.userOrganization.findMany({ userId }): the owner belongs to the
\* organization of agent A, the other user to the organization of agent B.
UserOrganizations(user) == IF user = "owner" THEN {"org1"} ELSE {"org2"}

\* The stored conversations; matches tells whether a message of the
\* conversation contains the search term.
StoredConversations ==
    {[id |-> "k1", agentId |-> "A", status |-> "ACTIVE", channel |-> "WEB",
      startedAt |-> 1, matches |-> TRUE],
     [id |-> "k2", agentId |-> "A", status |-> "ENDED", channel |-> "WHATSAPP",
      startedAt |-> 2, matches |-> FALSE],
     [id |-> "k3", agentId |-> "B", status |-> "ACTIVE", channel |-> "WEB",
      startedAt |-> 2, matches |-> TRUE],
     [id |-> "k4", agentId |-> "B", status |-> "ENDED", channel |-> "WHATSAPP",
      startedAt |-> 3, matches |-> FALSE]}

\* req.query; "none" and 0 stand for a parameter that is not given.
Queries ==
    [agentId : {"none", "A", "B"}, status : {"none", "ACTIVE"},
     channel : {"none", "WEB"}, search : {"none", "term"},
     startDate : {0, 2}, endDate : {0, 2}]

\* The where clause: agentId in accessibleAgents, replaced by the agentId
\* of the query when there is one.
WhereAgent(user, query) ==
    IF query.agentId # "none" THEN {query.agentId}
    ELSE {a \in Agents : AgentOrganization(a) \in UserOrganizations(user)}

\* prisma.conversation.findMany({ where }) of the first page
FindConversations(user, query) ==
    {k \in StoredConversations :
        /\ k.agentId \in WhereAgent(user, query)
        /\ query.status # "none" => k.status = query.status
        /\ query.channel # "none" => k.channel = query.channel
        /\ query.startDate # 0 => k.startedAt >= query.startDate
        /\ query.endDate # 0 => k.startedAt <= query.endDate
        /\ query.search # "none" => k.matches}

\* GET /api/conversations
ListConversations(user, query) ==
    /\ listing' = [stage |-> "done", user |-> user, query |-> query,
                   result |-> FindConversations(user, query)]
    /\ UNCHANGED <<conv, run, index, nlp, sockets, route, review, agent, call, meta>>

NextListing ==
    \E user \in Users, query \in Queries : ListConversations(user, query)

SpecListing == Init /\ [][NextListing]_vars

(***************************************************************************)
(* The writers of conversation.metadata: PUT /:id/transfer and the         *)
(* conversation-analysis worker                                            *)
(***************************************************************************)

\* conversation.metadata holds, for the transfer fields (transferredAt,
\* transferredBy, transferReason) and for the analysis field, the writer
\* that wrote them, 0 when the fields are absent.

\* Requests and jobs are numbered in the order in which they start:
\* meta.writer holds those that have started.
NextWriter(w) == w = Len(meta.writer) + 1

\* queues.conversationAnalysis.process(handler): one job at a time
AnalysisFree ==
    \A v \in DOMAIN meta.writer :
        meta.writer[v].kind = "analysis" => meta.writer[v].pc = "done"

\* PUT /:id/transfer, findUnique and checkPermission
MetaTransferRead(w, user) ==
    /\ NextWriter(w)
    /\ meta' = [meta EXCEPT !.writer = Append(@,
                  IF checkPermission(user, "update")
                  THEN [IdleWriter EXCEPT !.kind = "transfer", !.pc = "update",
                                          !.seen = meta.metadata]
                  ELSE [IdleWriter EXCEPT !.kind = "transfer", !.pc = "done",
                                          !.result = "403"])]
    /\ UNCHANGED <<conv, run, index, nlp, sockets, route, review, agent, call, listing>>

\* PUT /:id/transfer, prisma.conversation.update with
\* metadata: { ...conversation.metadata, transferredAt, transferredBy,
\* transferReason }
MetaTransferUpdate(w) ==
    /\ meta.writer[w].kind = "transfer" /\ meta.writer[w].pc = "update"
    /\ meta' = [meta EXCEPT !.status = "TRANSFERRED",
                            !.metadata = [meta.writer[w].seen EXCEPT !.transfer = w],
                            !.writer[w].pc = "create"]
    /\ UNCHANGED <<conv, run, index, nlp, sockets, route, review, agent, call, listing>>

\* PUT /:id/transfer, prisma.message.create of the SYSTEM message, the
\* event and the reply
MetaTransferCreate(w) ==
    /\ meta.writer[w].kind = "transfer" /\ meta.writer[w].pc = "create"
    /\ meta' = [meta EXCEPT !.notes = @ + 1, !.writer[w].pc = "done",
                            !.writer[w].result = "200"]
    /\ UNCHANGED <<conv, run, index, nlp, sockets, route, review, agent, call, listing>>

\* conversation-analysis worker, findUnique with the messages
MetaAnalysisRead(w) ==
    /\ NextWriter(w)
    /\ AnalysisFree
    /\ meta' = [meta EXCEPT !.writer = Append(@,
                  [IdleWriter EXCEPT !.kind = "analysis", !.pc = "update",
                                     !.seen = meta.metadata])]
    /\ UNCHANGED <<conv, run, index, nlp, sockets, route, review, agent, call, listing>>

\* conversation-analysis worker, the analyses and prisma.conversation.update
\* with metadata: { ...conversation.metadata, analysis }; a throw of
\* analyzeText fails the job before the update.
MetaAnalysisUpdate(w) ==
    /\ meta.writer[w].kind = "analysis" /\ meta.writer[w].pc = "update"
    /\ \/ meta' = [meta EXCEPT
                     !.metadata = [meta.writer[w].seen EXCEPT !.analysis = w],
                     !.writer[w].pc = "done", !.writer[w].result = "completed"]
       \/ meta' = [meta EXCEPT !.writer[w].pc = "done",
                               !.writer[w].result = "failed"]
    /\ UNCHANGED <<conv, run, index, nlp, sockets, route, review, agent, call, listing>>

NextMetadata ==
    \/ \E w \in Writers, user \in Users : MetaTransferRead(w, user)
    \/ \E w \in DOMAIN meta.writer : MetaTransferUpdate(w)
    \/ \E w \in DOMAIN meta.writer : MetaTransferCreate(w)
    \/ \E w \in Writers : MetaAnalysisRead(w)
    \/ \E w \in DOMAIN meta.writer : MetaAnalysisUpdate(w)

SpecMetadata == Init /\ [][NextMetadata]_vars

(***************************************************************************)
(* Properties                                                              *)
(***************************************************************************)

Persisted(role, t) == Msg(role, t) \in Range(messages)

\* The turns that entered processMessage.
Accepted(t) == turn[t].kind # "none" /\ turn[t].result # "400"

\* processMessage returned to its caller without throwing.
Succeeded(t) == turn[t].result \in {"200", "completed"}

Emitted(type, by) == Event(type, by) \in events

\* C1: in every state a reader can observe, the USER message and the
\* ASSISTANT message of a turn are both present or both absent.
C1_TurnAtomic ==
    \A t \in Turns : Persisted("USER", t) <=> Persisted("ASSISTANT", t)

\* C2: the history a turn's prompt is assembled from contains both messages
\* of every turn accepted before it (every earlier turn that has a
\* persistence step, i.e. whose model invocation did not fail).
C2_HistoryHasEarlierTurns ==
    \A t \in modelCalls : \A s \in Turns :
        (s < t /\ Accepted(s) /\ turn[s].model # "failed")
            => /\ Msg("USER", s) \in Range(turn[t].history)
               /\ Msg("ASSISTANT", s) \in Range(turn[t].history)

\* C3: every ASSISTANT message has the USER message of its own turn
\* directly before it, and when processMessage returns successfully the
\* last two messages are that turn's USER and ASSISTANT messages.
C3_PairsAdjacent ==
    [][/\ \A i \in DOMAIN messages' :
            messages'[i].role = "ASSISTANT"
                => /\ i > 1
                   /\ messages'[i - 1] = Msg("USER", messages'[i].by)
       /\ \A t \in Turns :
            (~Succeeded(t) /\ Succeeded(t)')
                => /\ Len(messages') >= 2
                   /\ messages'[Len(messages') - 1] = Msg("USER", t)
                   /\ messages'[Len(messages')] = Msg("ASSISTANT", t)]_vars

\* C4: a USER or ASSISTANT message is appended only while the stored status
\* of the conversation is ACTIVE.
C4_AppendOnlyWhenActive ==
    [][\A i \in DOMAIN messages' :
            (i > Len(messages) /\ messages'[i].role \in {"USER", "ASSISTANT"})
                => status = "ACTIVE"]_vars

\* C5: a send-message request that finds the stored status PAUSED, ENDED or
\* TRANSFERRED, or that carries empty content, is answered 400 in that very
\* step, which invokes no model, appends no message, leaves the status alone
\* and emits no event; and a request answered 400 never has a model call, a
\* message or an event of its own.
C5_RejectedBeforeProcessing ==
    [][/\ \A t \in Turns :
            (/\ turn[t].kind = "none"
             /\ turn'[t].kind = "send"
             /\ (status # "ACTIVE" \/ turn'[t].content = "empty"))
                => /\ turn'[t].pc = "done"
                   /\ turn'[t].result = "400"
                   /\ messages' = messages
                   /\ status' = status
                   /\ events' = events
                   /\ modelCalls' = modelCalls
       /\ \A t \in Turns :
            turn'[t].result = "400"
                => /\ t \notin modelCalls'
                   /\ \A i \in DOMAIN messages' :
                        messages'[i].role \in {"USER", "ASSISTANT"}
                            => messages'[i].by # t
                   /\ \A e \in events' :
                        e.type \in {"agent:typing", "message:new", "agent:error"}
                            => e.by # t]_vars

\* C5 witness: a request with content was answered 400 on a PAUSED
\* conversation, and a request with empty content was answered 400.
C5_Witness ==
    /\ status = "PAUSED"
    /\ \E t \in Turns :
        turn[t].kind = "send" /\ turn[t].content = "text" /\ turn[t].result = "400"
    /\ \E t \in Turns :
        turn[t].kind = "send" /\ turn[t].content = "empty" /\ turn[t].result = "400"

\* C6: the status changes only from ACTIVE, and only to PAUSED, ENDED or
\* TRANSFERRED; an ENDED or TRANSFERRED conversation keeps its status.
C6_StatusOnlyForward ==
    [][status' # status
            => /\ status = "ACTIVE"
               /\ status' \in {"PAUSED", "ENDED", "TRANSFERRED"}]_vars

\* C7: a turn whose messages could not be persisted is not reported as a
\* completed turn: processMessage does not return successfully and no
\* message:new event carries the reply.
C7_PersistFailureReported ==
    \A t \in Turns :
        turn[t].saveFailed => ~Succeeded(t) /\ ~Emitted("message:new", t)

C9_TransferOnce ==
    [][/\ \A o \in Ops :
            (op[o].kind = "transfer" /\ op[o].seen = "ACTIVE") =>
                /\ (op[o].pc = "update" /\ op'[o].pc # "update")
                        => status' = "TRANSFERRED"
                /\ op'[o].pc = "done"
                        => Cardinality({i \in DOMAIN messages' :
                                            messages'[i] = Msg("SYSTEM", o)}) = 1
       /\ Cardinality({i \in DOMAIN messages' :
                            messages'[i].role = "SYSTEM"}) <= 1]_vars

\* C10: an End that found the conversation ACTIVE sets the status to ENDED
\* and, once completed, has appended a SYSTEM message recording the
\* transition.
C10_EndAppendsSystemMessage ==
    [][\A o \in Ops :
        (op[o].kind = "end" /\ op[o].seen = "ACTIVE") =>
            /\ (op[o].pc = "update" /\ op'[o].pc # "update") => status' = "ENDED"
            /\ op'[o].pc = "done"
                    => \E i \in DOMAIN messages' : messages'[i] = Msg("SYSTEM", o)]_vars

\* C11: a step of an End request that found the conversation ENDED leaves
\* the stored status, endedAt and the messages as they are and emits no
\* conversation:ended event of its own.
C11_EndIdempotent ==
    [][\A o \in Ops :
        (op[o].kind = "end" /\ op[o].seen = "ENDED" /\ op'[o] # op[o])
            => /\ status' = status
               /\ endedAt' = endedAt
               /\ messages' = messages
               /\ ~Emitted("conversation:ended", o)']_vars

\* C12: whenever a message:new event of a turn has been emitted, the
\* ASSISTANT message of that turn is stored in the conversation.
C12_EventImpliesPersisted ==
    \A t \in Turns : Emitted("message:new", t) => Persisted("ASSISTANT", t)

HebrewLetters ==
    {"kaf", "mem", "nun", "pe", "tsadi",
     "kafF", "memF", "nunF", "peF", "tsadiF", "yod"}

\* A word: two or more Hebrew letters and nothing else.
IsHebrewWord(text) ==
    /\ Len(text) > 1
    /\ \A i \in DOMAIN text : text[i] \in HebrewLetters

\* C18: a Hebrew word whose last letter is the medial form of kaf, mem, nun,
\* pe or tsadi comes out of the final-letter correction, and of the
\* normalization, with that letter replaced by its final form and the rest
\* as it was; any other Hebrew word comes out unchanged.
C18_FinalLetterCorrected ==
    (nlp.stage \in {"fixed", "normalized"} /\ IsHebrewWord(nlp.text))
        => LET n == Len(nlp.text)
           IN IF nlp.text[n] \in DOMAIN finalLetterMap
              THEN nlp.out = [nlp.text EXCEPT ![n] = finalLetterMap[nlp.text[n]]]
              ELSE nlp.out = nlp.text

\* C19: normalizeHebrewText applied to a normalized text returns that text.
C19_NormalizeIdempotent ==
    nlp.stage = "renormalized" => nlp.again = nlp.out

\* C19 witness: a text that normalization changed in all three ways
\* (whitespace, punctuation, final letter) has been normalized twice.
C19_Witness ==
    /\ nlp.stage = "renormalized"
    /\ Len(nlp.out) < Len(nlp.text)
    /\ "hyphen" \in Range(nlp.out)
    /\ "memF" \in Range(nlp.out) /\ "memF" \notin Range(nlp.text)

\* The maximal runs of characters that are not whitespace, in order.
WhitespaceTokens(text) ==
    SelectSeq(SplitFrom(text, 1, <<>>, Whitespace), LAMBDA w : w # <<>>)

\* C20: the tokens analyzeText returns are the pieces of the (normalized)
\* text between whitespace, in order, and none of them is empty.
C20_TokensSplitOnWhitespace ==
    nlp.stage = "analyzed"
        => /\ nlp.tokens = WhitespaceTokens(nlp.out)
           /\ \A i \in DOMAIN nlp.tokens : nlp.tokens[i] # <<>>

\* C13: when the embedding request or the vector search of a turn fails,
\* getRelevantContext yields no document and does not throw, the model is
\* invoked with a system message that has no knowledge section, and a turn
\* whose model answers and whose creates succeed stores both messages.
C13_RetrievalFailureNotFatal ==
    run.retrieval \in {"embedFail", "searchFail"}
        => /\ run.docs = {}
           /\ run.thrownBy # "getRelevantContext"
           /\ run.stage = "invoke" \/ run.model # "none"
           /\ run.model # "none" => ~run.prompt[1].knowledge
           /\ (run.result = "returned" /\ ~run.saveFailed)
                    => run.saved = <<"USER", "ASSISTANT">>

\* C13 witness: the search failed on a collection that holds points of the
\* agent, and the turn returned with both messages stored.
C13_Witness ==
    /\ run.retrieval = "searchFail"
    /\ \E pt \in index.points : pt.payload.agentId = run.agent
    /\ run.result = "returned"
    /\ run.saved = <<"USER", "ASSISTANT">>

\* C14: no call of processMessage ends with an error thrown by analyzeText:
\* whatever the analysis meets, the turn goes on to retrieval.
C14_AnalysisNeverBlocks ==
    run.thrownBy # "analyzeText"

\* C15: every chunk getRelevantContext handed to a turn of an agent, in
\* processMessage or through search_knowledge_base, comes from a document
\* of that agent.
C15_RetrievalScoped ==
    \A content \in run.docs \cup run.functionDocs : Owner(content) = run.agent

\* C15 witness: the collection holds points of both agents, and both the
\* turn and the function call of one agent got chunks.
C15_Witness ==
    /\ \A a \in Agents : \E pt \in index.points : pt.payload.agentId = a
    /\ run.docs # {}
    /\ run.functionDocs # {}

\* C16: the collection never holds two points for the same chunk of the
\* same document.
C16_NoDuplicatePoints ==
    \A pt, q \in index.points :
        (/\ pt.payload.documentId = q.payload.documentId
         /\ pt.payload.chunkIndex = q.payload.chunkIndex) => pt = q

\* C17: the prompt handed to the model is one system message, then at most
\* 10 messages replayed from the history, each a USER or ASSISTANT entry, in
\* the order of the history, then one human message whose content is the
\* raw user input; no other message is a system message.
C17_PromptOrder ==
    run.model # "none"
        => LET prompt == run.prompt
               n == Len(prompt)
           IN /\ n >= 2
              /\ prompt[1].type = "system"
              /\ \A i \in 2..n : prompt[i].type # "system"
              /\ prompt[n] = PromptMessage("human", 0, run.input.text, FALSE, FALSE)
              /\ n - 2 <= 10
              /\ \A i \in 2..(n - 1) :
                    /\ prompt[i].at \in DOMAIN run.history
                    /\ \/ /\ run.history[prompt[i].at].role = "USER"
                          /\ prompt[i].type = "human"
                       \/ /\ run.history[prompt[i].at].role = "ASSISTANT"
                          /\ prompt[i].type = "ai"
              /\ \A i, j \in 2..(n - 1) : i < j => prompt[i].at < prompt[j].at

\* C17 witness: a prompt built from a history of more than 10 messages with
\* a SYSTEM entry among the last 10, for an input that normalization
\* changes.
C17_Witness ==
    /\ run.model # "none"
    /\ Len(run.history) > 10
    /\ \E i \in DOMAIN run.history :
            i > Len(run.history) - 10 /\ run.history[i].role = "SYSTEM"
    /\ Len(run.prompt) > 2
    /\ run.normalizedText # run.input.text

\* C26: a GET /api/agents/:id request is answered with the agent only when
\* checkPermission(user, 'read', 'agent', organizationId) succeeds for the
\* requester, from the database and from the cache alike.
C26_ReadNeedsPermission ==
    \A c \in DOMAIN call :
        (call[c].kind = "get" /\ call[c].result = 200)
            => checkPermission(call[c].user, "read")

\* C28: a GET that starts after a PUT or DELETE has completed, with the
\* database updated and the cache key deleted, is never answered from the
\* cache with a version of the agent older than the one that request wrote.
C28_NoStaleAfterUpdate ==
    \A c \in DOMAIN call :
        (call[c].kind = "get" /\ call[c].result = 200 /\ call[c].fromCache)
            => call[c].returned >= call[c].floor

\* C30: when a POST /api/agents/:id/test request that created its test
\* conversation has finished, with a reply or with an error, that
\* conversation is no longer in the store.
C30_TestConversationRemoved ==
    \A c \in DOMAIN call :
        (call[c].kind = "test" /\ call[c].pc = "done")
            => call[c].conversation # "exists"

\* C21: two failed turns whose causes are of different classes ("retry
\* later" for a provider failure, "conversation not available" for a
\* missing or non-ACTIVE conversation, "internal failure" for a failure
\* inside the service) are answered with errors of different status and
\* message.
C21_ErrorClassesDistinct ==
    LET CauseClass(cause) ==
            CASE cause = "provider" -> "retry later"
              [] cause \in {"missing", "notActive"} -> "conversation not available"
              [] cause \in {"internal", "persistence"} -> "internal failure"
              [] OTHER -> "request refused"
    IN \A r1 \in route.responses, r2 \in route.responses :
          (/\ ~r1.success /\ ~r2.success
           /\ CauseClass(r1.cause) # CauseClass(r2.cause))
              => <<r1.status, r1.message>> # <<r2.status, r2.message>>

\* C23: every agent:typing, message:new, agent:error and conversation:ended
\* event emitted for a conversation is delivered to every socket that has
\* joined that conversation and has not left it.
C23_SubscribersReceiveEvents ==
    route.event.type # "none" => route.event.subscribers \subseteq route.event.delivered

\* C25: for every accepted send-message request, agent:typing has been
\* emitted from the moment processing starts; while processMessage runs
\* neither message:new nor agent:error has been emitted for the request; and
\* when it has returned or thrown exactly one of the two has been emitted.
C25_TypingThenOneOutcome ==
    \A t \in Turns :
        (turn[t].kind = "send" /\ Accepted(t)) =>
            /\ Emitted("agent:typing", t)
            /\ turn[t].pc # "done" =>
                   ~Emitted("message:new", t) /\ ~Emitted("agent:error", t)
            /\ turn[t].pc = "done" =>
                   Emitted("message:new", t) # Emitted("agent:error", t)
            /\ Emitted("message:new", t) <=> turn[t].result = "200"
            /\ Emitted("agent:error", t) <=> turn[t].result = "500"

\* Two send-message requests have finished, one whose processMessage threw
\* and one whose processMessage returned.
C25_Witness ==
    \E t \in Turns, u \in Turns :
        /\ turn[t].kind = "send" /\ turn[t].pc = "done" /\ turn[t].result = "500"
        /\ Emitted("agent:typing", t) /\ Emitted("agent:error", t)
        /\ turn[u].kind = "send" /\ turn[u].pc = "done" /\ turn[u].result = "200"
        /\ Emitted("agent:typing", u) /\ Emitted("message:new", u)

RunsWrapped(text, class) ==
    \A i \in DOMAIN text :
        text[i] \in class =>
            /\ (i = 1 \/ text[i - 1] \notin class) => (i > 1 /\ text[i - 1] = "LRO")
            /\ (i = Len(text) \/ text[i + 1] \notin class) =>
                   (i < Len(text) /\ text[i + 1] = "PDF")

\* C24: on the Hebrew path the content that postProcessResponse returns is
\* in normalized form (normalizeHebrewText returns it unchanged), and every
\* maximal run of digits and of Latin letters in it stands between U+202D
\* and U+202C.
C24_ReplyCanonical ==
    nlp.stage = "replied" =>
        /\ nlp.again = nlp.out
        /\ RunsWrapped(nlp.out, Digits)
        /\ RunsWrapped(nlp.out, Latin)

\* C27: every conversation that GET /api/conversations returns belongs to
\* an agent of one of the organizations of the requesting user, whatever
\* the query filters are.
C27_ListingScoped ==
    listing.stage = "done" =>
        \A k \in listing.result :
            AgentOrganization(k.agentId) \in UserOrganizations(listing.user)

\* C29: when a Transfer and a conversation analysis have both completed on
\* the conversation, in whatever order their reads and writes were
\* interleaved, the metadata of the conversation holds the transfer fields
\* and the analysis field.
C29_MetadataKeepsBoth ==
    \A v \in DOMAIN meta.writer, w \in DOMAIN meta.writer :
        (/\ meta.writer[v].kind = "transfer" /\ meta.writer[v].result = "200"
         /\ meta.writer[w].kind = "analysis" /\ meta.writer[w].result = "completed")
            => meta.metadata.transfer # 0 /\ meta.metadata.analysis # 0

====
